---- MODULE Spec2Model ----
(***************************************************************************)
(* Model of fix_typescript_issues.py: the regular-expression rewrites      *)
(* (fix_unused_imports, fix_unused_variables), the per-file driver         *)
(* (process_file) with its file I/O, and discovery and the loop of main.   *)
(*                                                                         *)
(* Text is a sequence of tokens.  A token is an indivisible piece of text: *)
(* the keywords and names the regular expressions mention, a blank, a      *)
(* newline, and a few punctuation characters.  The regular expressions are *)
(* evaluated token by token with Python's re semantics (leftmost match,    *)
(* non-overlapping, "." never matches a newline, \s matches a newline).    *)
(***************************************************************************)
EXTENDS Integers, Sequences, FiniteSets, TLC

\* ------------------------------------------------------------------------
\* Bounds of the model.
\* MaxLines: the longest text, in lines, the rewrite is checked on.
\* MaxFiles: the most files the tree under the root holds.
MaxLines == 3
MaxFiles == 2

\* ------------------------------------------------------------------------
\* Tokens.
NL == "\n"
SP == " "
TRIG == "is assigned a value but never used"

\* \s : a blank or a newline.
IsSpace(c) == c \in {SP, NL}

\* \w : the tokens made of word characters only.  TRIG starts and ends with a
\* word character but has blanks inside; it is handled where it matters.
IsWord(c) == c \in {"import", "from", "const", "_Memory", "Sys6Stage", "Glyph", "w", "_"}

\* The three patterns of fix_unused_imports, by the name each one looks for.
patterns == <<"_Memory", "Sys6Stage", "Glyph">>

Max(a, b) == IF a >= b THEN a ELSE b

\* ------------------------------------------------------------------------
\* Helpers over token sequences.

\* Index of the last token of the maximal run of tokens satisfying \s that
\* starts at p (p - 1 when s[p] is not a space, or p is past the end).
RECURSIVE SpaceRunEnd(_, _)
SpaceRunEnd(s, p) ==
    IF p <= Len(s) /\ IsSpace(s[p]) THEN SpaceRunEnd(s, p + 1) ELSE p - 1

\* Index of the last token of the maximal run of \w tokens that starts at p.
RECURSIVE WordRunEnd(_, _)
WordRunEnd(s, p) ==
    IF p <= Len(s) /\ IsWord(s[p]) THEN WordRunEnd(s, p + 1) ELSE p - 1

\* Index of the first newline at or after p, 0 when there is none.
RECURSIVE NextNL(_, _)
NextNL(s, p) ==
    IF p > Len(s) THEN 0
    ELSE IF s[p] = NL THEN p
    ELSE NextNL(s, p + 1)

\* ------------------------------------------------------------------------
\* r"import\s+.*<name>.*from.*;\n" matched at position p: the index of the
\* match's last token (the newline), 0 when there is no match at p.
\* \s+ must swallow every newline of the space run after "import", since
\* ".*" cannot cross one; what follows lies on one line and must hold <name>,
\* then "from", then ";" right before the newline.
MatchEnd(name, s, p) ==
    IF p > Len(s) \/ s[p] # "import" THEN 0
    ELSE
      LET e  == SpaceRunEnd(s, p + 1)
          nls == {i \in (p + 1)..e : s[i] = NL}
          ls == IF nls = {} THEN p + 2
                ELSE Max(p + 2, (CHOOSE i \in nls : \A j \in nls : j <= i) + 1)
          le == NextNL(s, ls)
      IN IF e < p + 1 \/ le = 0 THEN 0
         ELSE IF /\ le - 1 >= ls
                 /\ s[le - 1] = ";"
                 /\ \E i \in ls..(le - 2) : \E j \in (i + 1)..(le - 2) :
                        s[i] = name /\ s[j] = "from"
              THEN le
              ELSE 0

\* re.sub(pattern, '', content): every non-overlapping match, leftmost first,
\* is removed in one pass; the scan resumes right after a removed match.
RECURSIVE SubFrom(_, _, _)
SubFrom(name, s, p) ==
    IF p > Len(s) THEN <<>>
    ELSE LET m == MatchEnd(name, s, p)
         IN IF m > 0 THEN SubFrom(name, s, m + 1)
            ELSE <<s[p]>> \o SubFrom(name, s, p + 1)

\* re.sub with count=1: only the leftmost match is removed.
RECURSIVE SubFirstFrom(_, _, _)
SubFirstFrom(name, s, p) ==
    IF p > Len(s) THEN <<>>
    ELSE LET m == MatchEnd(name, s, p)
         IN IF m > 0 THEN SubSeq(s, m + 1, Len(s))
            ELSE <<s[p]>> \o SubFirstFrom(name, s, p + 1)

StripFirstOnly(name, content) == SubFirstFrom(name, content, 1)

StripPattern(name, content) == SubFrom(name, content, 1)

\* The loop of fix_unused_imports over patterns[k..].
RECURSIVE StripFrom(_, _)
StripFrom(k, content) ==
    IF k > Len(patterns) THEN content
    ELSE StripFrom(k + 1, StripPattern(patterns[k], content))

\* The content fix_unused_imports writes back.
fix_unused_imports_text(content) == StripFrom(1, content)

\* ------------------------------------------------------------------------
\* f.readlines(): the text cut after every newline; a last line without a
\* newline is kept as it is.
RECURSIVE readlines(_)
readlines(s) ==
    IF s = <<>> THEN <<>>
    ELSE LET n == NextNL(s, 1)
         IN IF n = 0 THEN <<s>>
            ELSE <<SubSeq(s, 1, n)>> \o readlines(SubSeq(s, n + 1, Len(s)))

\* f.writelines(lines): the lines one after the other.
RECURSIVE writelines(_)
writelines(lines) ==
    IF lines = <<>> THEN <<>>
    ELSE Head(lines) \o writelines(Tail(lines))

\* re.search(r"const\s+(\w+)\s*=", line), tried at position p.
ConstDeclAt(line, p) ==
    /\ p <= Len(line)
    /\ line[p] = "const"
    /\ LET e == SpaceRunEnd(line, p + 1)
           r == WordRunEnd(line, e + 1)
           q == SpaceRunEnd(line, r + 1)
       IN /\ e >= p + 1
          /\ r >= e + 1
          /\ q + 1 <= Len(line)
          /\ line[q + 1] = "="

IsConstDecl(line) == \E p \in 1..Len(line) : ConstDeclAt(line, p)

\* re.sub(r"const\s+(\w+)", r"const _\1", line) from position p on: every
\* match is replaced, and a match is "const", its run of spaces and the run
\* of word tokens after it; the spaces come back as one blank.
RECURSIVE RenameFrom(_, _)
RenameFrom(line, p) ==
    IF p > Len(line) THEN <<>>
    ELSE LET e == SpaceRunEnd(line, p + 1)
             r == WordRunEnd(line, e + 1)
         IN IF /\ line[p] = "const"
               /\ e >= p + 1
               /\ e + 1 <= Len(line)
               /\ (IsWord(line[e + 1]) \/ line[e + 1] = TRIG)
            THEN <<"const", SP, "_">> \o SubSeq(line, e + 1, r)
                     \o RenameFrom(line, r + 1)
            ELSE <<line[p]>> \o RenameFrom(line, p + 1)

RenameLine(line) == RenameFrom(line, 1)

HasTrigger(line) == \E p \in 1..Len(line) : line[p] = TRIG

\* The two conditions of the loop of fix_unused_variables for line i (the
\* source counts from 0, the model from 1): the line declares a const, and
\* the line before it, as the list holds it now, has the trigger.
RenameFires(lines, i) ==
    IsConstDecl(lines[i]) /\ i > 1 /\ HasTrigger(lines[i - 1])

\* The loop of fix_unused_variables from line i on: <<lines, modified>>.
RECURSIVE RenameLoop(_, _, _)
RenameLoop(lines, i, modified) ==
    IF i > Len(lines) THEN <<lines, modified>>
    ELSE IF RenameFires(lines, i)
         THEN RenameLoop([lines EXCEPT ![i] = RenameLine(lines[i])], i + 1, TRUE)
         ELSE RenameLoop(lines, i + 1, modified)

fix_unused_variables_lines(lines) == RenameLoop(lines, 1, FALSE)

\* ------------------------------------------------------------------------
\* The tree under the root.  A path is a sequence of names, a name a sequence
\* of pieces, so that "in str(f)" is a search and not an assumption.
deltecho_path == << <<"home">>, <<"ubuntu">>, <<"deltecho">> >>

CandidatePaths ==
    { << <<"a", ".test.ts">> >>,
      << <<"src">>, <<"b", ".spec.ts">> >>,
      << <<"node_modules">>, <<"c", ".test.ts">> >>,
      << <<"dist">>, <<"d", ".spec.ts">> >>,
      << <<"src">>, <<"re", "dist", "ribute", ".test.ts">> >>,
      << <<"pkg", ".test.ts">>, <<"f", ".spec.ts">> >>,
      << <<"src">>, <<"e", ".ts">> >> }

\* Every node a candidate path names: the files and the directories above.
AllNodes ==
    UNION {{SubSeq(p, 1, n) : n \in 1..Len(p)} : p \in CandidatePaths}

IsPrefix(d, p) == Len(d) < Len(p) /\ SubSeq(p, 1, Len(d)) = d

\* The directories of a tree whose files are fileset.
DirsOf(fileset) == {d \in AllNodes : \E p \in fileset : IsPrefix(d, p)}

\* A glob that takes either suffix, so that both globs list every test file.
SuffixMatchEither(path, suffix) ==
    LET name == path[Len(path)] IN name[Len(name)] \in {".test.ts", ".spec.ts"}

\* fnmatch of the node's name against "*<suffix>".
SuffixMatch(path, suffix) ==
    LET name == path[Len(path)] IN name[Len(name)] = suffix

\* Path.rglob("*<suffix>"): every node below the root, file or directory,
\* whose name matches.  A root that is missing or cannot be listed yields
\* nothing: pathlib returns an empty iterator, it does not raise.
rglob(state, fileset, suffix) ==
    IF state # "ok" THEN {}
    ELSE {n \in fileset \cup DirsOf(fileset) : SuffixMatch(n, suffix)}

\* word in str(f): the pieces of the whole path, root included, searched.
InStr(word, path) ==
    \E i \in 1..Len(deltecho_path \o path) :
        \E j \in 1..Len((deltecho_path \o path)[i]) :
            (deltecho_path \o path)[i][j] = word

\* The filter of line 80.
Kept(path) == ~InStr("node_modules", path) /\ ~InStr("dist", path)

\* The orders a directory scan may list a set of nodes in.
Orders(S) ==
    {q \in [1..Cardinality(S) -> S] : \A i, j \in 1..Cardinality(S) : q[i] = q[j] => i = j}

\* ------------------------------------------------------------------------
\* Inputs.
LineShapes ==
    { <<"import", SP, "_Memory", SP, "from", SP, "w", ";", NL>>,
      <<"import", SP, "Sys6Stage", SP, "from", SP, "w", ";", NL>>,
      <<"import", SP, "Glyph", SP, "from", SP, TRIG, ";", NL>>,
      <<"import", NL>>,
      <<"import", SP, "_Memory", SP, "from", NL>>,
      <<"/", TRIG, NL>>,
      <<"const", SP, "w", SP, "=", SP, "w", ";", NL>>,
      <<"const", SP, SP, "w", "=", SP, "/", TRIG, NL>>,
      <<"const", SP, "w", SP, "const", SP, "w", "=">>,
      <<"w", NL>> }

\* The texts of at most n lines.
TextsUpTo(n) ==
    {writelines(ls) : ls \in UNION {[1..m -> LineShapes] : m \in 0..n}}

\* The contents a file of the tree starts with.
FileTexts ==
    { <<"w", NL>>,
      <<"import", SP, "_Memory", SP, "from", SP, "w", ";", NL, "w", NL>>,
      <<"/", TRIG, NL, "import", SP, "Glyph", SP, "from", SP, "w", ";", NL,
        "const", SP, SP, "w", "=", NL>> }

\* ------------------------------------------------------------------------
\* State.
VARIABLES
    root_state,   \* "ok", "missing" or "unreadable": the root directory
    files,        \* the paths of the files under the root
    fs,           \* path -> the content of the file on disk
    test_files,   \* main: the list of discovered paths
    idx,          \* main: the position of the for loop in test_files
    pc,           \* where the run is
    content,      \* fix_unused_imports: content
    k,            \* fix_unused_imports: the pattern the loop is at
    lines,        \* fix_unused_variables: lines
    modified,     \* fix_unused_variables: modified
    output,       \* what was printed, line by line
    reads,        \* node -> open(path, 'r') calls of this run
    writes,       \* node -> open(path, 'w') calls of this run
    orig,         \* the content of every file when the run started
    strip_log,    \* the passes of re.sub on the current file: name, before, after
    lines_read,   \* the lines fix_unused_variables read for the current file
    run,          \* 1 in the first run over the tree, 2 in a second one
    first_result  \* content of every file when the first run ended

vars == <<root_state, files, fs, test_files, idx, pc, content, k, lines, modified,
          output, reads, writes, orig, strip_log, lines_read, run, first_result>>

env == <<root_state, files, orig, run, first_result>>
locals == <<content, k, lines, modified, strip_log, lines_read>>

Line(kind, path, n) == [kind |-> kind, path |-> path, n |-> n]

EmptyFs == [p \in CandidatePaths |-> <<>>]
ZeroCount == [n \in AllNodes |-> 0]

\* No fix function is running: their locals hold nothing.
NoLocals(c, n, l, m, log, lr) ==
    /\ c = <<>>
    /\ n = 1
    /\ l = <<>>
    /\ m = FALSE
    /\ log = <<>>
    /\ lr = <<>>

Start ==
    /\ test_files = <<>>
    /\ idx = 1
    /\ pc = "discover"
    /\ NoLocals(content, k, lines, modified, strip_log, lines_read)
    /\ output = <<>>
    /\ reads = ZeroCount
    /\ writes = ZeroCount
    /\ orig = fs
    /\ run = 1
    /\ first_result = EmptyFs

\* A tree of at most MaxFiles files, each with one of the sample contents; a
\* missing root has no files below it.
Init ==
    /\ root_state \in {"ok", "missing", "unreadable"}
    /\ files \in {S \in SUBSET CandidatePaths : Cardinality(S) <= MaxFiles}
    /\ root_state = "missing" => files = {}
    /\ fs \in [CandidatePaths -> FileTexts \cup {<<>>}]
    /\ \A p \in CandidatePaths : (p \in files) <=> (fs[p] # <<>>)
    /\ Start

\* One file under a readable root, holding any text of at most MaxLines lines.
TheFile == << <<"a", ".test.ts">> >>

InitRewrite ==
    /\ root_state = "ok"
    /\ files = {TheFile}
    /\ \E t \in TextsUpTo(MaxLines) : fs = [EmptyFs EXCEPT ![TheFile] = t]
    /\ Start

\* ------------------------------------------------------------------------
\* main, lines 73-82: both globs, the filter, the count line.
Discover ==
    /\ pc = "discover"
    /\ \E a \in Orders(rglob(root_state, files, ".test.ts")) :
       \E b \in Orders(rglob(root_state, files, ".spec.ts")) :
          LET found == SelectSeq(a \o b, Kept)
          IN /\ test_files' = found
             /\ output' = Append(output, Line("found", <<>>, Len(found)))
    /\ idx' = 1
    /\ pc' = "loop"
    /\ UNCHANGED <<env, fs, locals, reads, writes>>

\* main, lines 84-85, and process_file, line 63: the next file is entered.
NextFile ==
    /\ pc = "loop"
    /\ idx <= Len(test_files)
    /\ pc' = "imports_read"
    /\ UNCHANGED <<env, fs, test_files, idx, locals, output, reads, writes>>

\* main, line 87.
Complete ==
    /\ pc = "loop"
    /\ idx > Len(test_files)
    /\ output' = Append(output, Line("complete", <<>>, 0))
    /\ pc' = "done"
    /\ UNCHANGED <<env, fs, test_files, idx, locals, reads, writes>>

path == test_files[idx]

IsFile(p) == p \in files

Bump(count, p) == [count EXCEPT ![p] = @ + 1]

\* fix_unused_imports, lines 13-14.
ImportsRead ==
    /\ pc = "imports_read"
    /\ IsFile(path)
    /\ reads' = Bump(reads, path)
    /\ content' = fs[path]
    /\ k' = 1
    /\ pc' = "imports_sub"
    /\ UNCHANGED <<env, fs, test_files, idx, lines, modified, output, writes,
                   strip_log, lines_read>>

\* fix_unused_imports, lines 23-24: one pass of the loop over patterns.
ImportsSub ==
    /\ pc = "imports_sub"
    /\ k <= Len(patterns)
    /\ content' = StripPattern(patterns[k], content)
    /\ strip_log' = Append(strip_log,
                           [name |-> patterns[k], before |-> content,
                            after |-> content'])
    /\ k' = k + 1
    /\ pc' = IF k = Len(patterns) THEN "imports_write" ELSE "imports_sub"
    /\ UNCHANGED <<env, fs, test_files, idx, lines, modified, output, reads,
                   writes, lines_read>>

\* fix_unused_imports, lines 26-27: the write is not guarded.
ImportsWrite ==
    /\ pc = "imports_write"
    /\ writes' = Bump(writes, path)
    /\ fs' = [fs EXCEPT ![path] = content]
    /\ pc' = "variables_read"
    /\ UNCHANGED <<env, test_files, idx, locals, output, reads>>

\* Where fix_unused_variables goes after its loop, lines 48-50.
AfterRename(flag) == IF flag THEN "variables_write" ELSE "promises_read"

\* fix_unused_variables, lines 31-41: the read and the loop over the lines.
VariablesRead ==
    /\ pc = "variables_read"
    /\ IsFile(path)
    /\ reads' = Bump(reads, path)
    /\ lines_read' = readlines(fs[path])
    /\ LET res == fix_unused_variables_lines(readlines(fs[path]))
       IN /\ lines' = res[1]
          /\ modified' = res[2]
          /\ pc' = AfterRename(res[2])
    /\ UNCHANGED <<env, fs, test_files, idx, content, k, output, writes, strip_log>>

\* fix_unused_variables, lines 49-50.
VariablesWrite ==
    /\ pc = "variables_write"
    /\ writes' = Bump(writes, path)
    /\ fs' = [fs EXCEPT ![path] = writelines(lines)]
    /\ pc' = "promises_read"
    /\ UNCHANGED <<env, test_files, idx, locals, output, reads>>

\* fix_floating_promises, lines 54-59: the file is read and nothing is done.
PromisesRead ==
    /\ pc = "promises_read"
    /\ IsFile(path)
    /\ reads' = Bump(reads, path)
    /\ pc' = "print_processed"
    /\ UNCHANGED <<env, fs, test_files, idx, locals, output, writes>>

\* A loop that stops at the first file that failed.
LoopAfterBreak(outcome, i, n) == IF outcome = "error" THEN n + 1 ELSE i + 1

\* The for loop of main, lines 84-85: process_file returns whatever happened
\* to file i of n, and the loop goes to the file after it.
LoopAfter(outcome, i, n) == i + 1

\* process_file, line 67; the fix functions have returned and their locals are
\* gone; the loop of main moves on.
PrintProcessed ==
    /\ pc = "print_processed"
    /\ output' = Append(output, Line("processed", path, 0))
    /\ idx' = LoopAfter("processed", idx, Len(test_files))
    /\ pc' = "loop"
    /\ NoLocals(content', k', lines', modified', strip_log', lines_read')
    /\ UNCHANGED <<env, fs, test_files, reads, writes>>

\* An exception no except clause catches leaves the run.
HandlerUncaught == "crashed"

\* Where an exception raised inside the try of process_file goes, line 68.
Handler == "except"

ReadPcs == {"imports_read", "variables_read", "promises_read"}
WritePcs == {"imports_write", "variables_write"}

\* open(file_path, 'r') or the read raises: the path is a directory, it was
\* removed, it may not be read, or it does not decode.
ReadFails ==
    /\ pc \in ReadPcs
    /\ reads' = Bump(reads, path)
    /\ pc' = Handler
    /\ UNCHANGED <<env, fs, test_files, idx, locals, output, writes>>

\* open(file_path, 'w') raises: nothing was touched.
OpenForWriteFails ==
    /\ pc \in WritePcs
    /\ writes' = Bump(writes, path)
    /\ pc' = Handler
    /\ UNCHANGED <<env, fs, test_files, idx, locals, output, reads>>

\* open(file_path, 'w') truncated the file and the write or the close raises
\* (the disk is full): a text this short is written whole or not at all.
WriteFails ==
    /\ pc \in WritePcs
    /\ writes' = Bump(writes, path)
    /\ fs' = [fs EXCEPT ![path] = <<>>]
    /\ pc' = Handler
    /\ UNCHANGED <<env, test_files, idx, locals, output, reads>>

\* process_file, lines 68-69; the fix function that raised is left and its
\* locals are gone; the loop of main moves on.
Except ==
    /\ pc = "except"
    /\ output' = Append(output, Line("error", path, 0))
    /\ idx' = LoopAfter("error", idx, Len(test_files))
    /\ pc' = "loop"
    /\ NoLocals(content', k', lines', modified', strip_log', lines_read')
    /\ UNCHANGED <<env, fs, test_files, reads, writes>>

\* The script is started once more on the tree the first run left.
Rerun ==
    /\ pc = "done"
    /\ run = 1
    /\ run' = 2
    /\ first_result' = fs
    /\ orig' = fs
    /\ test_files' = <<>>
    /\ idx' = 1
    /\ pc' = "discover"
    /\ output' = <<>>
    /\ reads' = ZeroCount
    /\ writes' = ZeroCount
    /\ UNCHANGED <<root_state, files, fs, locals>>

Steps ==
    \/ Discover
    \/ NextFile
    \/ Complete
    \/ ImportsRead
    \/ ImportsSub
    \/ ImportsWrite
    \/ VariablesRead
    \/ VariablesWrite
    \/ PromisesRead
    \/ PrintProcessed

Next ==
    \/ ReadFails
    \/ OpenForWriteFails
    \/ WriteFails
    \/ Except
    \/ Steps

NextRewrite ==
    \/ Steps
    \/ Rerun

\* One run over a tree, every read and write free to fail.
Spec == Init /\ [][Next]_vars

\* The interpreter runs the script to its end: a step that can be taken is.
FairSpec == Spec /\ WF_vars(Next)

\* Two runs in a row over one file of any text, no read or write failing.
SpecRewrite == InitRewrite /\ [][NextRewrite]_vars

\* process_file, lines 64-65, when no read and no write fails: the text the
\* file holds afterwards, as a function of the text it held before.
Rewrite(t) ==
    LET stripped == fix_unused_imports_text(t)
        res == fix_unused_variables_lines(readlines(stripped))
    IN IF res[2] THEN writelines(res[1]) ELSE stripped

\* ------------------------------------------------------------------------
\* Vocabulary of the claims.

\* The per-file lines of the output, in the order printed.
FileLines == SelectSeq(output, LAMBDA l : l.kind \in {"processed", "error"})

\* How often path p is in the discovered list.
Occurrences(p) == Cardinality({i \in 1..Len(test_files) : test_files[i] = p})

ExcludeDirs == { <<"node_modules">>, <<"dist">> }

\* The name matches *.test.ts or *.spec.ts.
SuffixOk(p) ==
    LET name == p[Len(p)] IN name[Len(name)] \in {".test.ts", ".spec.ts"}

\* No segment of the path is an excluded directory name.
NoExcludedSegment(p) == \A i \in 1..Len(p) : p[i] \notin ExcludeDirs

\* The tokens of s that lie inside some match of the import pattern for name.
Covered(name, s) ==
    {i \in 1..Len(s) : \E p \in 1..i : MatchEnd(name, s, p) >= i}

\* s without the tokens at the positions in D, the rest in its order.
RECURSIVE DropAt(_, _, _)
DropAt(s, D, i) ==
    IF i > Len(s) THEN <<>>
    ELSE (IF i \in D THEN <<>> ELSE <<s[i]>>) \o DropAt(s, D, i + 1)

\* The loop of fix_unused_variables is over for the current file.
RenameDone == pc \in {"variables_write", "promises_read", "print_processed"}

\* The line with "_" put right before the name the declaration pattern
\* captures (its leftmost match), every other token as it was.
PrefixDeclared(line) ==
    LET p == CHOOSE q \in 1..Len(line) :
                 ConstDeclAt(line, q) /\ \A r \in 1..(q - 1) : ~ConstDeclAt(line, r)
        e == SpaceRunEnd(line, p + 1)
    IN SubSeq(line, 1, e) \o <<"_">> \o SubSeq(line, e + 1, Len(line))

\* ------------------------------------------------------------------------
\* C1: a file whose rewritten content equals the content read (no strip
\* pattern, no flagged const declaration) is never opened for writing.
C1_NoWriteWithoutChange ==
    \A p \in files : Rewrite(orig[p]) = orig[p] => writes[p] = 0

\* C2: a second run over the result of the first leaves every file as the
\* first run left it: rewrite(rewrite(t)) = rewrite(t).
C2_Idempotent ==
    (run = 2 /\ pc = "done") => fs = first_result

\* C3: a file reported as "Error processing" holds on disk what it held
\* before process_file started.
C3_ErrorLeavesFileUnmodified ==
    \A i \in 1..Len(output) :
        (output[i].kind = "error" /\ output[i].path \in files)
            => fs[output[i].path] = orig[output[i].path]

\* C4: the files are attempted one at a time in discovery order, each gets
\* exactly one outcome line, in that order, and a failure neither aborts the
\* run nor keeps a later file from being processed: the run is never left
\* through an exception, the per-file lines are always those of the files
\* before the loop position, and at the end every discovered file has one.
C4_FailureIsolation ==
    /\ pc \in {"discover", "loop", "imports_read", "imports_sub", "imports_write",
               "variables_read", "variables_write", "promises_read",
               "print_processed", "except", "done"}
    /\ pc # "discover" =>
          /\ Len(FileLines) = idx - 1
          /\ idx <= Len(test_files) + 1
          /\ \A i \in 1..Len(FileLines) : FileLines[i].path = test_files[i]
    /\ pc = "done" => Len(FileLines) = Len(test_files)

\* C4 witness: a finished run in which a file failed and the file after it
\* was processed.
C4_Witness ==
    /\ pc = "done"
    /\ \E i \in 1..(Len(FileLines) - 1) :
          FileLines[i].kind = "error" /\ FileLines[i + 1].kind = "processed"

C6_DiscoveryExact ==
    (pc # "discover" /\ root_state = "ok") =>
        \A p \in files :
            /\ Occurrences(p) <= 1
            /\ Occurrences(p) = 1 <=> (SuffixOk(p) /\ NoExcludedSegment(p))

\* C7: line i changes exactly when the line before it has the trigger and
\* line i matches the declaration pattern; the changed line is the old one
\* with "_" put before the declared name and nothing else touched; modified
\* is set exactly when some line changed.
C7_RenameExact ==
    RenameDone =>
        /\ Len(lines) = Len(lines_read)
        /\ \A i \in 1..Len(lines_read) :
              LET fires == /\ i > 1
                           /\ HasTrigger(lines_read[i - 1])
                           /\ IsConstDecl(lines_read[i])
              IN /\ (lines[i] # lines_read[i]) <=> fires
                 /\ fires => lines[i] = PrefixDeclared(lines_read[i])
        /\ modified <=> \E i \in 1..Len(lines_read) : lines[i] # lines_read[i]

\* C8: the passes over a file are those of _Memory, Sys6Stage, Glyph in that
\* order, each over the text the pass before it produced (the first over the
\* text read); a pass removes exactly the tokens that lie in a match of its
\* pattern and keeps the rest in order; a pass without a match changes
\* nothing; and the lines the rename step reads are those of the stripped text.
C8_StripCorrect ==
    /\ Len(strip_log) <= Len(patterns)
    /\ \A i \in 1..Len(strip_log) :
          LET pass == strip_log[i]
          IN /\ pass.name = patterns[i]
             /\ pass.before = IF i = 1 THEN orig[TheFile] ELSE strip_log[i - 1].after
             /\ pass.after = DropAt(pass.before, Covered(pass.name, pass.before), 1)
             /\ (\A p \in 1..Len(pass.before) : MatchEnd(pass.name, pass.before, p) = 0)
                    => pass.after = pass.before
    /\ RenameDone =>
          /\ Len(strip_log) = Len(patterns)
          /\ lines_read = readlines(strip_log[Len(patterns)].after)

\* C8 witness: a file some pass shortened and some pass left alone, whose
\* const declaration is flagged in the stripped text but not in the text read.
C8_Witness ==
    /\ pc = "print_processed"
    /\ \E i \in 1..Len(strip_log) : strip_log[i].after # strip_log[i].before
    /\ \E i \in 1..Len(strip_log) : strip_log[i].after = strip_log[i].before
    /\ modified
    /\ ~fix_unused_variables_lines(readlines(orig[TheFile]))[2]

\* What the output of a run under a readable root looks like at every moment.
OutputOk ==
    /\ \A i \in 1..Len(output) :
          output[i].kind = "complete" => (i = Len(output) /\ pc = "done")
    /\ pc = "done" =>
          /\ Len(output) = Len(test_files) + 2
          /\ output[1].kind = "found"
          /\ output[1].n = Len(FileLines)
          /\ output[Len(output)].kind = "complete"
          /\ \A i \in 1..Len(test_files) :
                /\ output[i + 1].kind \in {"processed", "error"}
                /\ output[i + 1].path = test_files[i]

\* C9: a run under a readable root ends; "Automated fixes complete!" is
\* printed once, last, after one line for every discovered file; and the N of
\* the count line is the number of those lines.
C9_RunCompletes ==
    /\ [](root_state = "ok" => OutputOk)
    /\ (root_state = "ok") ~> (pc = "done")

\* C9 witness: a finished run under a readable root over at least two files,
\* one of them failed.
C9_Witness ==
    /\ root_state = "ok"
    /\ pc = "done"
    /\ Len(test_files) >= 2
    /\ \E i \in 1..Len(output) : output[i].kind = "error"
    /\ \E i \in 1..Len(output) : output[i].kind = "processed"

\* C10: when the root is missing or unreadable, the run does not report
\* completion.
C10_DiscoveryFailureIsFatal ==
    root_state # "ok" => \A i \in 1..Len(output) : output[i].kind # "complete"

====
